---- MODULE Spec2Model ----
(***************************************************************************)
(* Clip selection of the VIN video player (src/src/components/             *)
(* VideoPlayer.tsx, the component with Start/End/Frame handles) together   *)
(* with the range the App session holds for it.                            *)
(*                                                                         *)
(* Time is counted in ticks of 1/30 second, the finest step the code uses  *)
(* (the ','/'.' nudge), so that every value the handlers compute from the  *)
(* inputs below is an integer: 1 second = FPS ticks, 90 seconds =          *)
(* MaxSpan ticks.                                                          *)
(*                                                                         *)
(* One action is one browser event: the handler, the re-render and the     *)
(* effects the re-render triggers, up to the state React settles in.       *)
(***************************************************************************)
EXTENDS Integers, Sequences, FiniteSets, TLC

VARIABLES
    videoDuration,    \* useState videoDuration (ticks)
    selectionStart,   \* useState selectionStart (ticks)
    selectionEnd,     \* useState selectionEnd (ticks)
    isDragging,       \* useState isDragging
    dragStartX,       \* useState dragStartX (clientX of the last mouse-down)
    draggingHandle,   \* useState draggingHandle: "null", "start", "end", "frame"
    isPlaying,        \* useState isPlaying
    clipStartTime,    \* App: useState clipStartTime
    clipEndTime,      \* App: useState clipEndTime
    lastOp,           \* history: the event handled last
    anchorStart,      \* history: selectionStart at the last mouse-down
    before,           \* history: (start, end, duration) before a duration change
    events,           \* history: number of events handled so far
    thumbnails,       \* App: useState thumbnails (the images, in order)
    selectedThumbnail,\* App: useState selectedThumbnail
    videos,           \* App: the video elements the regeneration effect made
    videoRef,         \* player: the <video> element of videoRef
    overview,         \* first player: the locals of one generateThumbnails call
    processing,       \* DownloadOptions: useState processing
    processedVideoUrl,\* DownloadOptions: useState processedVideoUrl
    processingProgress, \* DownloadOptions: useState processingProgress
    recordedChunks,   \* DownloadOptions: recordedChunksRef.current
    hiddenVideo,      \* DownloadOptions: the hidden <video> of videoRef
    jobs,             \* DownloadOptions: the processVideo calls and their locals
    webmSupported,    \* MediaRecorder.isTypeSupported('video/webm;codecs=vp8')
    downloads,        \* history: the URLs handed to triggerDownload
    mounted,          \* the App shows the player and DownloadOptions (videoLoaded)
    videoSrc,         \* App: useState videoSrc (0 = '', else the source chosen)
    selectedIndex,    \* ThumbnailSelector: useState selectedIndex
    listeners         \* player: the timeupdate listeners added to its <video>

\* the state of thumbnail sampling
thumbVars == <<thumbnails, selectedThumbnail, videos, videoRef, overview>>

\* the state of the capture pipeline
captureVars == <<processing, processedVideoUrl, processingProgress,
                 recordedChunks, hiddenVideo, jobs, webmSupported, downloads,
                 mounted>>

\* the source of the session, the selector and the stop watchers
sessionVars == <<videoSrc, selectedIndex, listeners>>

vars == <<videoDuration, selectionStart, selectionEnd, isDragging, dragStartX,
          draggingHandle, isPlaying, clipStartTime, clipEndTime, lastOp,
          anchorStart, before, events, thumbVars, captureVars, sessionVars>>

----------------------------------------------------------------------------
(* Program constants *)

\* ticks per second: the frame nudge is 1/30 s
FPS == 30

\* the longest selection, in seconds
MaxSpanSec == 90

MaxSpan == MaxSpanSec * FPS

\* "at least 1s" of the handle drags
OneSecond == 1 * FPS

\* 1 / 30 s of the keyboard nudges
OneFrame == 1

(* Bounds and inputs *)

\* events handled in one run
MaxEvents == 7

\* timelineRef.current.getBoundingClientRect()
timelineRect == [left |-> 8, width |-> 20]

\* durations the video element reports (ticks): 2/3 s, 2 s, 100 s
Durations == {20, 60, 3000}

\* pointer positions (clientX) of mouse events over the timeline
ClientXs == {timelineRect.left + p : p \in {0, 2, 20}}

\* keys of keydown events
Keys == {"ArrowLeft", "ArrowRight", ",", ".", " ", "a"}

Handles == {"start", "end", "frame"}

----------------------------------------------------------------------------
(* Helpers *)

Min(a, b) == IF a < b THEN a ELSE b

Max(a, b) == IF a > b THEN a ELSE b

\* (px / timelineWidth) * videoDuration; exact for the durations above
PixelsToTime(px, d) == (px * d) \div timelineRect.width

\* const time = Math.max(0, Math.min(videoDuration, (mouseX / timelineWidth) * videoDuration))
PointerTime(clientX, d) ==
    LET mouseX == clientX - timelineRect.left
    IN  Max(0, Min(d, PixelsToTime(mouseX, d)))

----------------------------------------------------------------------------
(* Effects *)

\* the clamp effect with the span clamp applied unconditionally
ClampToDurationAlwaysMaxSpan(s, e, d) ==
    LET e1 == IF e > d THEN d ELSE e
        s1 == IF s > e1 THEN e1 ELSE s
        s2 == e1 - MaxSpan
        s3 == IF s2 < 0 THEN 0 ELSE s2
    IN  [start |-> s3, end |-> e1]

\* useEffect(..., [videoDuration]), the body under `if (videoDuration > 0)`
ClampToDuration(s, e, d) ==
    LET e1 == IF e > d THEN d ELSE e
        s1 == IF s > e1 THEN e1 ELSE s
        s2 == IF e1 - s1 > MaxSpan THEN e1 - MaxSpan ELSE s1
        s3 == IF s2 < 0 THEN 0 ELSE s2
    IN  [start |-> s3, end |-> e1]

\* useEffect(..., [selectionEnd, videoDuration])
KeepEndInDuration(s, e, d) ==
    IF e > d
    THEN [start |-> IF s > d THEN d ELSE s, end |-> d]
    ELSE [start |-> s, end |-> e]

\* The state React settles in after a handler has set (s, e, d) and reported
\* (cs, ce) through onClipSelected: the effects whose dependencies changed run
\* on the rendered values, their setState calls are applied in call order,
\* and the effects run again on what they changed.
RunEffects(s, e, d, cs, ce) ==
    LET durChanged == d # videoDuration
        endChanged == e # selectionEnd
        runClamp   == durChanged /\ d > 0
        c  == IF runClamp THEN ClampToDuration(s, e, d)
                          ELSE [start |-> s, end |-> e]
        k  == IF durChanged \/ endChanged THEN KeepEndInDuration(s, e, d)
                                          ELSE [start |-> s, end |-> e]
        s1 == IF k.start # s THEN k.start ELSE c.start
        e1 == IF k.end # e THEN k.end ELSE c.end
        r  == IF e1 # e THEN KeepEndInDuration(s1, e1, d)
                        ELSE [start |-> s1, end |-> e1]
    IN  [start     |-> r.start,
         end       |-> r.end,
         clipStart |-> IF runClamp THEN c.start ELSE cs,
         clipEnd   |-> IF runClamp THEN c.end ELSE ce]

Commit(s, e, d, cs, ce) ==
    LET r == RunEffects(s, e, d, cs, ce)
    IN  /\ videoDuration' = d
        /\ selectionStart' = r.start
        /\ selectionEnd' = r.end
        /\ clipStartTime' = r.clipStart
        /\ clipEndTime' = r.clipEnd

----------------------------------------------------------------------------
(* Handlers *)

\* the metadata handler selecting the whole video instead of its first 90 s
handleMetadataLoadedWholeVideo(duration) ==
    Commit(selectionStart, duration, duration, 0, duration)

\* handleMetadataLoaded
handleMetadataLoaded(duration) ==
    LET defaultEnd == Min(MaxSpan, duration)
    IN  Commit(selectionStart, defaultEnd, duration, 0, defaultEnd)

\* handleHandleDragStart
handleHandleDragStart(clientX, handle) ==
    /\ isDragging' = TRUE
    /\ dragStartX' = clientX
    /\ draggingHandle' = handle

\* the Start drag without the "at least 1s" margin
DragStartHandleNoMinSpan(time) ==
    LET n1 == Min(time, selectionEnd)
    IN  IF selectionEnd - n1 > MaxSpan THEN selectionEnd - MaxSpan ELSE n1

\* handleHandleDrag, draggingHandle === 'start'
DragStartHandle(time) ==
    LET n1 == Min(time, selectionEnd - OneSecond)
    IN  IF selectionEnd - n1 > MaxSpan THEN selectionEnd - MaxSpan ELSE n1

\* handleHandleDrag, draggingHandle === 'end'
DragEndHandle(time) ==
    LET n1 == Max(time, selectionStart + OneSecond)
    IN  IF n1 - selectionStart > MaxSpan THEN selectionStart + MaxSpan ELSE n1

\* handleHandleDrag, draggingHandle === 'frame'
DragFrame(time) ==
    LET frameWidth == selectionEnd - selectionStart
        n1 == time - PixelsToTime(dragStartX - timelineRect.left, videoDuration)
    IN  Max(0, Min(videoDuration - frameWidth, n1))

\* handleHandleDrag
handleHandleDrag(clientX) ==
    IF ~isDragging \/ draggingHandle = "null"
    THEN UNCHANGED <<videoDuration, selectionStart, selectionEnd,
                     clipStartTime, clipEndTime>>
    ELSE LET time == PointerTime(clientX, videoDuration)
         IN  CASE draggingHandle = "start" ->
                    LET newStart == DragStartHandle(time)
                    IN  Commit(newStart, selectionEnd, videoDuration,
                               newStart, selectionEnd)
               [] draggingHandle = "end" ->
                    LET newEnd == DragEndHandle(time)
                    IN  Commit(selectionStart, newEnd, videoDuration,
                               selectionStart, newEnd)
               [] draggingHandle = "frame" ->
                    LET frameWidth == selectionEnd - selectionStart
                        newFrameStart == DragFrame(time)
                    IN  Commit(newFrameStart, newFrameStart + frameWidth,
                               videoDuration,
                               newFrameStart, newFrameStart + frameWidth)

\* handleDragEnd without setDraggingHandle(null)
handleDragEndKeepsHandle ==
    /\ isDragging' = FALSE
    /\ draggingHandle' = draggingHandle

\* handleDragEnd
handleDragEnd ==
    /\ isDragging' = FALSE
    /\ draggingHandle' = "null"

\* togglePlayPause
togglePlayPause ==
    isPlaying' = ~isPlaying

\* the nudge amounts with the frame keys stepping a whole second
NudgeAmountSecondsOnly(key) ==
    CASE key = "ArrowLeft"  -> 0 - OneSecond
      [] key = "ArrowRight" -> OneSecond
      [] key = ","          -> 0 - OneSecond
      [] key = "."          -> OneSecond
      [] OTHER              -> 0

\* handleKeyDown: the nudge amount of a key, 0 for a key that nudges nothing
NudgeAmount(key) ==
    CASE key = "ArrowLeft"  -> 0 - OneSecond
      [] key = "ArrowRight" -> OneSecond
      [] key = ","          -> 0 - OneFrame
      [] key = "."          -> OneFrame
      [] OTHER              -> 0

\* handleKeyDown, e.shiftKey
NudgeEnd(nudgeAmount) ==
    LET n1 == Max(selectionStart + OneFrame,
                  Min(videoDuration, selectionEnd + nudgeAmount))
    IN  IF n1 - selectionStart > MaxSpan THEN selectionStart + MaxSpan ELSE n1

\* handleKeyDown, no shift
NudgeStart(nudgeAmount) ==
    LET n1 == Min(selectionEnd - OneFrame,
                  Max(0, selectionStart + nudgeAmount))
    IN  IF selectionEnd - n1 > MaxSpan THEN selectionEnd - MaxSpan ELSE n1

\* handleKeyDown
handleKeyDown(key, shiftKey) ==
    IF videoDuration = 0
    THEN UNCHANGED <<videoDuration, selectionStart, selectionEnd,
                     clipStartTime, clipEndTime, isPlaying>>
    ELSE IF key = " "
    THEN /\ togglePlayPause
         /\ UNCHANGED <<videoDuration, selectionStart, selectionEnd,
                        clipStartTime, clipEndTime>>
    ELSE IF NudgeAmount(key) = 0
    THEN UNCHANGED <<videoDuration, selectionStart, selectionEnd,
                     clipStartTime, clipEndTime, isPlaying>>
    ELSE /\ UNCHANGED isPlaying
         /\ IF shiftKey
            THEN LET newEnd == NudgeEnd(NudgeAmount(key))
                 IN  Commit(selectionStart, newEnd, videoDuration,
                            selectionStart, newEnd)
            ELSE LET newStart == NudgeStart(NudgeAmount(key))
                 IN  Commit(newStart, selectionEnd, videoDuration,
                            newStart, selectionEnd)

----------------------------------------------------------------------------
(* Events *)

\* history bookkeeping of one handled event
Handled(op) ==
    /\ events < MaxEvents
    /\ events' = events + 1
    /\ lastOp' = op
    /\ UNCHANGED <<thumbVars, captureVars, sessionVars>>

\* <video onLoadedMetadata>
OnLoadedMetadata(duration) ==
    /\ Handled("loadedmetadata")
    /\ handleMetadataLoaded(duration)
    /\ UNCHANGED <<isDragging, dragStartX, draggingHandle, isPlaying, anchorStart>>

\* the same, where `before` is not kept
LoadedMetadata(duration) ==
    /\ OnLoadedMetadata(duration)
    /\ UNCHANGED before

\* onMouseDown of the frame and of the two handles
MouseDown(clientX, handle) ==
    /\ Handled("mousedown")
    /\ handleHandleDragStart(clientX, handle)
    /\ anchorStart' = selectionStart
    /\ UNCHANGED <<videoDuration, selectionStart, selectionEnd, isPlaying,
                   clipStartTime, clipEndTime, before>>

\* timeline onMouseMove
MouseMove(clientX) ==
    /\ Handled("mousemove")
    /\ handleHandleDrag(clientX)
    /\ UNCHANGED <<isDragging, dragStartX, draggingHandle, isPlaying, anchorStart,
                   before>>

\* timeline onMouseUp
MouseUp ==
    /\ Handled("mouseup")
    /\ handleDragEnd
    /\ UNCHANGED <<videoDuration, selectionStart, selectionEnd, dragStartX,
                   isPlaying, clipStartTime, clipEndTime, anchorStart,
                   before>>

\* timeline onMouseLeave
MouseLeave ==
    /\ Handled("mouseleave")
    /\ handleDragEnd
    /\ UNCHANGED <<videoDuration, selectionStart, selectionEnd, dragStartX,
                   isPlaying, clipStartTime, clipEndTime, anchorStart,
                   before>>

\* window keydown listener
KeyDown(key, shiftKey) ==
    /\ Handled("keydown")
    /\ handleKeyDown(key, shiftKey)
    /\ UNCHANGED <<isDragging, dragStartX, draggingHandle, anchorStart, before>>

\* onClick of the video and of the play button
Click ==
    /\ Handled("click")
    /\ togglePlayPause
    /\ UNCHANGED <<videoDuration, selectionStart, selectionEnd, isDragging,
                   dragStartX, draggingHandle, clipStartTime, clipEndTime,
                   anchorStart, before>>

----------------------------------------------------------------------------
(* The capture pipeline before any export *)

\* useState<string | null>(null): no blob, no URL
NoUrl == [chunks |-> << >>, job |-> 0]

\* <video ref={videoRef} className="hidden"> with enough data to play
ReadyVideo == [currentTime |-> 0, seeking |-> "no", paused |-> TRUE,
               muted |-> FALSE]

\* DownloadOptions after it has mounted and its video has become ready
NoCapture ==
    /\ processing = FALSE
    /\ processedVideoUrl = NoUrl
    /\ processingProgress = [num |-> 0, den |-> 1]
    /\ recordedChunks = << >>
    /\ hiddenVideo = ReadyVideo
    /\ jobs = << >>
    /\ webmSupported = TRUE
    /\ downloads = << >>
    /\ mounted = TRUE

----------------------------------------------------------------------------
(* Thumbnail sampling: times, images and the offsets of a batch *)

\* A time the sampling computes is a quotient of ticks; it is kept exact as
\* numerator and denominator (den > 0).
Time(num, den) == [num |-> num, den |-> den]

Whole(t) == Time(t, 1)

TimeEq(a, b) == a.num * b.den = b.num * a.den

TimeLt(a, b) == a.num * b.den < b.num * a.den

\* canvas.toDataURL('image/jpeg') after drawImage(video): an image is known
\* by the time of the frame it shows
Frame(time) == time

\* useState<string>('')
NoImage == Time(0, 0)

\* const numThumbnails = 5
numThumbnails == 5

\* Array.from({ length: numThumbnails },
\*            (_, i) => i * (video.duration / (numThumbnails + 1)))
\* (element k of the sequence is the array's element i = k - 1)
OverviewPositions(duration) ==
    [k \in 1 .. numThumbnails |-> Time((k - 1) * duration, numThumbnails + 1)]

\* the 10 of Math.floor(duration / 10), in ticks
TenSeconds == 10 * FPS

\* Math.max(1, Math.floor(duration / 10)) with duration = end - start
PreviewCount(start, end) == Max(1, (end - start) \div TenSeconds)

\* the range preview with the offsets at the left edge of each sub-interval
PreviewPositionsAtEdge(start, end) ==
    LET n == PreviewCount(start, end)
    IN  [k \in 1 .. n |-> Time(2 * n * start + 2 * (k - 1) * (end - start), 2 * n)]

\* Array.from({ length: numThumbnails },
\*            (_, i) => start + ((i + 0.5) * duration) / numThumbnails)
\* (element k of the sequence is the array's element i = k - 1)
PreviewPositions(start, end) ==
    LET n == PreviewCount(start, end)
    IN  [k \in 1 .. n |->
            Time(2 * n * start + (2 * (k - 1) + 1) * (end - start), 2 * n)]

\* a <video> element that is not seeking and has no onseeked handler
IdleVideo == [currentTime |-> Whole(0), seeking |-> "no", onseeked |-> FALSE]

\* no generateThumbnails call yet
NoBatch == [thumbnailPositions |-> << >>, thumbnailsGenerated |-> 0,
            thumbnails |-> << >>, visited |-> << >>, delivered |-> FALSE]

\* the App after the first source was chosen: nothing clicked in the
\* selector, no stop watcher added
FirstSource ==
    /\ videoSrc = 1
    /\ selectedIndex = -1
    /\ listeners = << >>

\* the App and the player before any sampling and any export
NoSampling ==
    /\ FirstSource
    /\ NoCapture
    /\ thumbnails = << >>
    /\ selectedThumbnail = NoImage
    /\ videos = << >>
    /\ videoRef = IdleVideo
    /\ overview = NoBatch

----------------------------------------------------------------------------
(* The player after it has mounted: the useState initial values, then the  *)
(* effects of the first render (videoDuration is still 0).                 *)

Mounted == KeepEndInDuration(0, MaxSpan, 0)

Init ==
    /\ videoDuration = 0
    /\ selectionStart = Mounted.start
    /\ selectionEnd = Mounted.end
    /\ isDragging = FALSE
    /\ dragStartX = 0
    /\ draggingHandle = "null"
    /\ isPlaying = FALSE
    /\ clipStartTime = 0
    /\ clipEndTime = MaxSpan
    /\ lastOp = "mount"
    /\ anchorStart = 0
    /\ before = [start |-> 0, end |-> MaxSpan, duration |-> 0]
    /\ events = 0
    /\ NoSampling

Next ==
    \/ \E d \in Durations : LoadedMetadata(d)
    \/ \E x \in ClientXs, h \in Handles : MouseDown(x, h)
    \/ \E x \in ClientXs : MouseMove(x)
    \/ MouseUp
    \/ MouseLeave
    \/ \E k \in Keys, sh \in BOOLEAN : KeyDown(k, sh)
    \/ Click

Spec == Init /\ [][Next]_vars

----------------------------------------------------------------------------
(* Duration changes on their own: the selection a 100 s video has after    *)
(* the Start handle was dragged to pixel p and the End handle to pixel q   *)
(* of the timeline and the mouse was released, then metadata loads again   *)
(* with another duration.  `before` keeps the selection the load found.    *)

Sec(n) == n * FPS

NewDurations == {Sec(2), Sec(20), Sec(50), Sec(100), Sec(120)}

InitDur ==
    \E p, q \in 0 .. timelineRect.width :
        /\ p < q
        /\ PixelsToTime(q - p, Sec(100)) <= MaxSpan
        /\ videoDuration = Sec(100)
        /\ selectionStart = PixelsToTime(p, Sec(100))
        /\ selectionEnd = PixelsToTime(q, Sec(100))
        /\ isDragging = FALSE
        /\ dragStartX = timelineRect.left + q
        /\ draggingHandle = "null"
        /\ isPlaying = FALSE
        /\ clipStartTime = PixelsToTime(p, Sec(100))
        /\ clipEndTime = PixelsToTime(q, Sec(100))
        /\ lastOp = "mouseup"
        /\ anchorStart = PixelsToTime(p, Sec(100))
        /\ before = [start |-> 0, end |-> MaxSpan, duration |-> 0]
        /\ events = 0
        /\ NoSampling

DurationChange(d) ==
    /\ OnLoadedMetadata(d)
    /\ before' = [start |-> selectionStart, end |-> selectionEnd,
                  duration |-> videoDuration]

NextDur == \E d \in NewDurations : DurationChange(d)

SpecDur == InitDur /\ [][NextDur]_vars

----------------------------------------------------------------------------
(* Overview sampling of the first player (lines 1-261 of VideoPlayer.tsx). *)
(* Its handleMetadataLoaded starts one generateThumbnails call on the      *)
(* player's own <video>; the App installs what onThumbnailsGenerated       *)
(* delivers.  videoDuration, selectionStart, selectionEnd and isPlaying    *)
(* are this player's state here.  A seeked event is one step.              *)

\* "Play Selected Clip" clicks and stalled seeks in one run
MaxInputs == 2

\* durations the video element reports (ticks)
OverviewDurations == {Sec(6), Sec(60), Sec(100), Sec(600)}

\* video.currentTime = time: the element starts a seek to `time`; a seek
\* still in progress is abandoned for it and fires no seeked event
Seek(video, time) ==
    [video EXCEPT !.currentTime = time, !.seeking = "pending"]

\* the first two statements of captureFrame:
\* video.currentTime = time; video.onseeked = () => { ... }
captureFrame(video, time) ==
    [Seek(video, time) EXCEPT !.onseeked = TRUE]

\* App.handleThumbnailsGenerated
handleThumbnailsGenerated(newThumbnails) ==
    /\ thumbnails' = newThumbnails
    /\ selectedThumbnail' = IF Len(newThumbnails) > 0 THEN newThumbnails[1]
                                                      ELSE selectedThumbnail

\* generateThumbnails() of the first player, up to its return
generateThumbnails(duration) ==
    LET thumbnailPositions == OverviewPositions(duration)
    IN  /\ overview' = [thumbnailPositions  |-> thumbnailPositions,
                        thumbnailsGenerated |-> 0,
                        thumbnails          |-> << >>,
                        visited             |-> <<thumbnailPositions[1]>>,
                        delivered           |-> FALSE]
        /\ videoRef' = captureFrame(videoRef, thumbnailPositions[1])

\* <video onLoadedMetadata> of the first player: handleMetadataLoaded.  The
\* App mounts one player per source, so metadata loads once.
OverviewMetadataLoaded(duration) ==
    /\ videoDuration = 0
    /\ lastOp' = "loadedmetadata"
    /\ UNCHANGED <<captureVars, sessionVars>>
    /\ videoDuration' = duration
    /\ selectionEnd' = Min(MaxSpan, duration)
    /\ clipStartTime' = 0
    /\ clipEndTime' = Min(MaxSpan, duration)
    /\ generateThumbnails(duration)
    /\ UNCHANGED <<selectionStart, isDragging, dragStartX, draggingHandle,
                   isPlaying, anchorStart, before, events, thumbnails,
                   selectedThumbnail, videos>>

\* video.onseeked of the overview's captureFrame.  `thumbnails` is the array
\* object that onThumbnailsGenerated hands to setThumbnails, so a push after
\* the delivery is a push to the App's array.
OverviewOnSeeked ==
    LET settled == [videoRef EXCEPT !.seeking = "no"]
        pushed  == Append(overview.thumbnails, Frame(videoRef.currentTime))
        n       == overview.thumbnailsGenerated + 1
        counted == [overview EXCEPT !.thumbnails = pushed,
                                    !.thumbnailsGenerated = n]
    IN  CASE n = numThumbnails ->
                /\ handleThumbnailsGenerated(pushed)
                /\ videoRef' = Seek(settled, Whole(0))
                /\ overview' = [counted EXCEPT !.delivered = TRUE]
          [] n < numThumbnails ->
                /\ videoRef' =
                      captureFrame(settled, overview.thumbnailPositions[n + 1])
                /\ overview' =
                      [counted EXCEPT !.visited =
                          Append(@, overview.thumbnailPositions[n + 1])]
                /\ UNCHANGED <<thumbnails, selectedThumbnail>>
          [] OTHER ->
                /\ videoRef' = settled
                /\ overview' = counted
                /\ thumbnails' = pushed
                /\ UNCHANGED selectedThumbnail

\* the player's <video> fires seeked
OverviewSeeked ==
    /\ videoRef.seeking = "pending"
    /\ videoRef.onseeked
    /\ lastOp' = "seeked"
    /\ UNCHANGED <<captureVars, sessionVars>>
    /\ OverviewOnSeeked
    /\ UNCHANGED <<videoDuration, selectionStart, selectionEnd, isDragging,
                   dragStartX, draggingHandle, isPlaying, clipStartTime,
                   clipEndTime, anchorStart, before, events, videos>>

\* onClick of "Play Selected Clip": playSelectedClip.  Before metadata has
\* loaded the assignment to currentTime starts no seek.
PlaySelectedClip ==
    /\ events < MaxInputs
    /\ events' = events + 1
    /\ lastOp' = "play"
    /\ UNCHANGED <<captureVars, sessionVars>>
    /\ videoRef' = IF videoDuration > 0
                   THEN Seek(videoRef, Whole(selectionStart))
                   ELSE videoRef
    /\ isPlaying' = TRUE
    /\ UNCHANGED <<videoDuration, selectionStart, selectionEnd, isDragging,
                   dragStartX, draggingHandle, clipStartTime, clipEndTime,
                   anchorStart, before, thumbnails, selectedThumbnail, videos,
                   overview>>

\* the source stops delivering data (a lost connection, a damaged file):
\* the seek in progress never fires seeked
OverviewSeekStalls ==
    /\ events < MaxInputs
    /\ videoRef.seeking = "pending"
    /\ events' = events + 1
    /\ lastOp' = "stall"
    /\ UNCHANGED <<captureVars, sessionVars>>
    /\ videoRef' = [videoRef EXCEPT !.seeking = "stalled"]
    /\ UNCHANGED <<videoDuration, selectionStart, selectionEnd, isDragging,
                   dragStartX, draggingHandle, isPlaying, clipStartTime,
                   clipEndTime, anchorStart, before, thumbnails,
                   selectedThumbnail, videos, overview>>

\* the first player after it has mounted (no effect changes its selection)
InitOverview ==
    /\ videoDuration = 0
    /\ selectionStart = 0
    /\ selectionEnd = MaxSpan
    /\ isDragging = FALSE
    /\ dragStartX = 0
    /\ draggingHandle = "null"
    /\ isPlaying = FALSE
    /\ clipStartTime = 0
    /\ clipEndTime = MaxSpan
    /\ lastOp = "mount"
    /\ anchorStart = 0
    /\ before = [start |-> 0, end |-> MaxSpan, duration |-> 0]
    /\ events = 0
    /\ NoSampling

NextOverview ==
    \/ \E d \in OverviewDurations : OverviewMetadataLoaded(d)
    \/ OverviewSeeked
    \/ PlaySelectedClip
    \/ OverviewSeekStalls

SpecOverview == InitOverview /\ [][NextOverview]_vars

----------------------------------------------------------------------------
(* Range preview of the App (lines 574-707 of VideoPlayer.tsx).  Each run  *)
(* of the regeneration effect makes a detached <video>; its                *)
(* onloadedmetadata calls generateThumbnails with the clipStartTime and    *)
(* clipEndTime the effect closed over.  The ranges below lie inside the    *)
(* source, where a seek reaches the time assigned.                         *)

\* video elements the effect makes in one run
MaxVideos == 3

\* document.createElement('video') of the effect, with its src, the range its
\* onloadedmetadata handler closed over and the locals of generateThumbnails
\* (history: visited = the seeks issued, delivered = setThumbnails was called,
\* inDrag = made by a mouse move of the drag still going on, intermediate =
\* a later mouse move of the same drag has replaced the range)
NewVideo(start, end) ==
    [src |-> videoSrc, start |-> start, end |-> end, loaded |-> FALSE,
     currentTime |-> Whole(0), seeking |-> "no", onseeked |-> FALSE,
     thumbnailPositions |-> << >>, idx |-> 0, newThumbnails |-> << >>,
     visited |-> << >>, delivered |-> FALSE,
     inDrag |-> FALSE, intermediate |-> FALSE]

\* App.generateThumbnails(video, start, end), up to its return.
\* numThumbnails is at least 1, so `setThumbnails([])` is never reached.
AppGenerateThumbnails(video) ==
    LET thumbnailPositions == PreviewPositions(video.start, video.end)
    IN  [captureFrame(video, thumbnailPositions[1]) EXCEPT
            !.loaded = TRUE,
            !.thumbnailPositions = thumbnailPositions,
            !.visited = <<thumbnailPositions[1]>>]

\* video.onseeked of the App's captureFrame, for the element videos[v]
VideoOnSeeked(v) ==
    LET video   == videos[v]
        pushed  == Append(video.newThumbnails, Frame(video.currentTime))
        idx     == video.idx + 1
        counted == [video EXCEPT !.seeking = "no", !.newThumbnails = pushed,
                                 !.idx = idx]
    IN  IF idx < Len(video.thumbnailPositions)
        THEN /\ videos' = [videos EXCEPT ![v] =
                    [captureFrame(counted, video.thumbnailPositions[idx + 1])
                        EXCEPT !.visited =
                            Append(@, video.thumbnailPositions[idx + 1])]]
             /\ UNCHANGED <<thumbnails, selectedThumbnail>>
        ELSE /\ videos' = [videos EXCEPT ![v] =
                    [counted EXCEPT !.delivered = TRUE]]
             /\ thumbnails' = pushed
             /\ selectedThumbnail' = IF Len(pushed) > 0 THEN pushed[1]
                                                       ELSE selectedThumbnail

\* the player and the App range, which the events of a detached video leave
playerVars == <<videoDuration, selectionStart, selectionEnd, isDragging,
                dragStartX, draggingHandle, isPlaying, clipStartTime,
                clipEndTime, anchorStart, before>>

\* video.onloadedmetadata of the effect fires for videos[v]
VideoLoadedMetadata(v) ==
    /\ v <= Len(videos)
    /\ ~videos[v].loaded
    /\ lastOp' = "videometadata"
    /\ UNCHANGED <<captureVars, sessionVars>>
    /\ videos' = [videos EXCEPT ![v] = AppGenerateThumbnails(@)]
    /\ UNCHANGED <<playerVars, events, thumbnails, selectedThumbnail,
                   videoRef, overview>>

\* videos[v] fires seeked
VideoSeeked(v) ==
    /\ v <= Len(videos)
    /\ videos[v].seeking = "pending"
    /\ videos[v].onseeked
    /\ lastOp' = "videoseeked"
    /\ UNCHANGED <<captureVars, sessionVars>>
    /\ VideoOnSeeked(v)
    /\ UNCHANGED <<playerVars, events, videoRef, overview>>

\* the source stops delivering data to videos[v]: its seek in progress
\* never fires seeked
VideoSeekStalls(v) ==
    /\ events < MaxInputs
    /\ v <= Len(videos)
    /\ videos[v].seeking = "pending"
    /\ events' = events + 1
    /\ lastOp' = "videostall"
    /\ UNCHANGED <<captureVars, sessionVars>>
    /\ videos' = [videos EXCEPT ![v].seeking = "stalled"]
    /\ UNCHANGED <<playerVars, thumbnails, selectedThumbnail, videoRef,
                   overview>>

(* One batch on its own: the App holds a range the player reported for a   *)
(* 120 s source and the effect has made the video element for it.          *)

BatchStarts == {0, Sec(10), Sec(10) + 7}

BatchSpans == {0, 1, Sec(1), Sec(10) - 1, Sec(10), Sec(25), Sec(30),
               Sec(47) + 13, Sec(90)}

InitBatch ==
    \E start \in BatchStarts, span \in BatchSpans :
        /\ FirstSource
        /\ videoDuration = Sec(120)
        /\ selectionStart = start
        /\ selectionEnd = start + span
        /\ isDragging = FALSE
        /\ dragStartX = 0
        /\ draggingHandle = "null"
        /\ isPlaying = FALSE
        /\ clipStartTime = start
        /\ clipEndTime = start + span
        /\ lastOp = "effect"
        /\ anchorStart = start
        /\ before = [start |-> 0, end |-> MaxSpan, duration |-> 0]
        /\ events = 0
        /\ thumbnails = << >>
        /\ selectedThumbnail = NoImage
        /\ videos = <<NewVideo(start, start + span)>>
        /\ videoRef = IdleVideo
        /\ overview = NoBatch
        /\ NoCapture

NextBatch ==
    \/ \E v \in 1 .. MaxVideos : VideoLoadedMetadata(v)
    \/ \E v \in 1 .. MaxVideos : VideoSeeked(v)
    \/ \E v \in 1 .. MaxVideos : VideoSeekStalls(v)

SpecBatch == InitBatch /\ [][NextBatch]_vars

\* The browser's event loop dispatches a loadedmetadata or seeked event that
\* is due; nothing obliges a stalled source to resume.
SpecBatchLive ==
    /\ SpecBatch
    /\ \A v \in 1 .. MaxVideos :
          WF_vars(VideoLoadedMetadata(v)) /\ WF_vars(VideoSeeked(v))

----------------------------------------------------------------------------
(* The App with its player: after every event of the player the App        *)
(* re-renders and the regeneration effect runs if clipStartTime or         *)
(* clipEndTime has changed.  The effect has no cleanup: the video elements *)
(* of earlier runs stay alive with their handlers.  videoSrc and           *)
(* videoLoaded are set throughout.                                         *)

\* events of the player in one run
MaxAppEvents == 3

\* the history fields of the videos after an event: a mouse move that changes
\* the range makes intermediate what the drag made before; the end of the
\* drag closes it
Retire(op, changed) ==
    [v \in 1 .. Len(videos) |->
        IF op = "mousemove" /\ changed /\ videos[v].inDrag
        THEN [videos[v] EXCEPT !.intermediate = TRUE]
        ELSE IF op = "mouseup"
        THEN [videos[v] EXCEPT !.inDrag = FALSE]
        ELSE videos[v]]

\* useEffect(..., [videoSrc, clipStartTime, clipEndTime, videoLoaded]) after
\* the render that follows the event `op`
RegenerateEffect(op) ==
    LET changed == <<clipStartTime', clipEndTime'>>
                       # <<clipStartTime, clipEndTime>>
        video   == [NewVideo(clipStartTime', clipEndTime') EXCEPT
                        !.inDrag = (op = "mousemove")]
    IN  videos' = IF changed THEN Append(Retire(op, changed), video)
                             ELSE Retire(op, changed)

\* one event of the player, handled by the player and then by the App
AppHandled(op) ==
    /\ events < MaxAppEvents
    /\ events' = events + 1
    /\ lastOp' = op
    /\ UNCHANGED <<captureVars, sessionVars>>
    /\ RegenerateEffect(op)
    /\ Len(videos') <= MaxVideos
    /\ UNCHANGED <<thumbnails, selectedThumbnail, videoRef, overview>>

\* onMouseDown of the frame and of the two handles
AppMouseDown(clientX, handle) ==
    /\ handleHandleDragStart(clientX, handle)
    /\ anchorStart' = selectionStart
    /\ UNCHANGED <<videoDuration, selectionStart, selectionEnd, isPlaying,
                   clipStartTime, clipEndTime, before>>
    /\ AppHandled("mousedown")

\* timeline onMouseMove
AppMouseMove(clientX) ==
    /\ handleHandleDrag(clientX)
    /\ AppHandled("mousemove")
    /\ UNCHANGED <<isDragging, dragStartX, draggingHandle, isPlaying,
                   anchorStart, before>>

\* timeline onMouseUp
AppMouseUp ==
    /\ handleDragEnd
    /\ UNCHANGED <<videoDuration, selectionStart, selectionEnd, dragStartX,
                   isPlaying, clipStartTime, clipEndTime, anchorStart,
                   before>>
    /\ AppHandled("mouseup")

\* window keydown listener
AppKeyDown(key, shiftKey) ==
    /\ handleKeyDown(key, shiftKey)
    /\ AppHandled("keydown")
    /\ UNCHANGED <<isDragging, dragStartX, draggingHandle, anchorStart, before>>

\* keys of keydown events
PreviewKeys == {"ArrowRight", ",", "a"}

\* the video of a range whose batch has run to its end
DeliveredVideo(start, end) ==
    LET thumbnailPositions == PreviewPositions(start, end)
        last == Len(thumbnailPositions)
    IN  [NewVideo(start, end) EXCEPT
            !.loaded = TRUE,
            !.currentTime = thumbnailPositions[last],
            !.onseeked = TRUE,
            !.thumbnailPositions = thumbnailPositions,
            !.idx = last,
            !.newThumbnails = [k \in 1 .. last |-> Frame(thumbnailPositions[k])],
            !.visited = thumbnailPositions,
            !.delivered = TRUE]

\* A 100 s source is loaded: the player shows its default selection, the
\* effect has run for the range (0, 90 s) and that batch has delivered.
InitPreview ==
    /\ FirstSource
    /\ videoDuration = Sec(100)
    /\ selectionStart = 0
    /\ selectionEnd = MaxSpan
    /\ isDragging = FALSE
    /\ dragStartX = 0
    /\ draggingHandle = "null"
    /\ isPlaying = FALSE
    /\ clipStartTime = 0
    /\ clipEndTime = MaxSpan
    /\ lastOp = "videoseeked"
    /\ anchorStart = 0
    /\ before = [start |-> 0, end |-> MaxSpan, duration |-> 0]
    /\ events = 0
    /\ thumbnails = DeliveredVideo(0, MaxSpan).newThumbnails
    /\ selectedThumbnail = DeliveredVideo(0, MaxSpan).newThumbnails[1]
    /\ videos = <<DeliveredVideo(0, MaxSpan)>>
    /\ videoRef = IdleVideo
    /\ overview = NoBatch
    /\ NoCapture

NextPreview ==
    \/ \E x \in ClientXs, h \in Handles : AppMouseDown(x, h)
    \/ \E x \in ClientXs : AppMouseMove(x)
    \/ AppMouseUp
    \/ \E k \in PreviewKeys, sh \in BOOLEAN : AppKeyDown(k, sh)
    \/ \E v \in 1 .. MaxVideos : VideoLoadedMetadata(v)
    \/ \E v \in 1 .. MaxVideos : VideoSeeked(v)
    \/ \E v \in 1 .. MaxVideos : VideoSeekStalls(v)

SpecPreview == InitPreview /\ [][NextPreview]_vars

----------------------------------------------------------------------------
(* The capture pipeline (src/src/components/DownloadOptions.tsx).  A job   *)
(* is one call of processVideo with the props and locals it closed over.   *)
(* Time passes while a job has a timer or a running recorder, from one     *)
(* timer callback to the next; a callback that is due runs before time  *)
(* passes again, and so does the task a stopped recorder has queued.  A    *)
(* dataavailable event of size 0 changes nothing and is no step.           *)

\* processVideo calls in one run
MaxJobs == 2

\* chunks in recordedChunksRef.current
MaxChunks == 2

\* disturbances of one run: a stalled tick, a rejected play(), a recorder
\* error, a session reset, a nudge of the range
MaxFaults == 1

\* setInterval(..., 100): 100 ms in ticks
IntervalTicks == (100 * FPS) \div 1000

\* the locals of a processVideo call that has assigned video.currentTime
\* (pc: "seeking" = awaiting onseeked, "playing" = awaiting video.play(),
\* "returned", "caught" = the catch block has run; mediaRecorder: "none",
\* "recording", "stopped" = inactive with its stop task queued, "inactive";
\* elapsed = Date.now() - startTime; lastFire = elapsed at the last interval
\* callback)
NewJob(start, end) ==
    [videoStartTime |-> start, videoEndTime |-> end, pc |-> "seeking",
     mediaRecorder |-> "none", progressInterval |-> FALSE,
     recordingTimeout |-> FALSE, elapsed |-> 0, lastFire |-> 0]

\* video.pause(); video.currentTime = videoStartTime; video.muted = false
ResetVideo(video, start) ==
    [Seek(video, start) EXCEPT !.paused = TRUE, !.muted = FALSE]

\* new Blob(recordedChunksRef.current) and its object URL, made by job j
Blob(chunks, j) == [chunks |-> chunks, job |-> j]

\* the interval callback without Math.min(..., 99)
ProgressUncapped(elapsed, duration) == Time(elapsed * 100, duration)

\* Math.min((elapsed / duration) * 100, 99)
Progress(elapsed, duration) ==
    IF elapsed * 100 >= 99 * duration THEN Whole(99)
                                      ELSE Time(elapsed * 100, duration)

\* bookkeeping of a step of the pipeline
Captured(op) ==
    /\ lastOp' = op
    /\ UNCHANGED <<playerVars, thumbVars, webmSupported, mounted, sessionVars>>

\* a disturbance: counted
Fault == events < MaxFaults /\ events' = events + 1

\* processVideo, up to `await new Promise(... video.onseeked = resolve)`.
\* The button is enabled only for a video with readyState >= 3.
processVideo ==
    /\ Len(jobs) < MaxJobs
    /\ processing' = TRUE
    /\ processingProgress' = Whole(0)
    /\ recordedChunks' = << >>
    /\ hiddenVideo' = [Seek(hiddenVideo, clipStartTime) EXCEPT !.muted = TRUE]
    /\ jobs' = Append(jobs, NewJob(clipStartTime, clipEndTime))
    /\ UNCHANGED <<processedVideoUrl, downloads>>

\* onClick of the download button (disabled while processing): downloadVideo.
\* `await processVideo()` returns before the recording ends and the
\* `if (processedVideoUrl)` after it reads the value of the render clicked.
DownloadClick ==
    /\ mounted
    /\ ~processing
    /\ Captured("click")
    /\ UNCHANGED events
    /\ IF processedVideoUrl = NoUrl
       THEN processVideo
       ELSE /\ Len(downloads) < MaxJobs
            /\ downloads' = Append(downloads, processedVideoUrl)
            /\ UNCHANGED <<processing, processedVideoUrl, processingProgress,
                           recordedChunks, hiddenVideo, jobs>>

\* the catch block of processVideo without setProcessing(false)
catchKeepsProcessing(j) ==
    /\ processing' = processing
    /\ processingProgress' = Whole(0)
    /\ jobs' = [jobs EXCEPT ![j].pc = "caught"]

\* the catch block of processVideo
catch(j) ==
    /\ processing' = FALSE
    /\ processingProgress' = Whole(0)
    /\ jobs' = [jobs EXCEPT ![j].pc = "caught"]

\* the hidden video fires seeked: processVideo goes on from the seek wait to
\* `await video.play()`, through the codec check and mediaRecorder.start(100)
CaptureSeeked ==
    /\ hiddenVideo.seeking = "pending"
    /\ Captured("captureseeked")
    /\ hiddenVideo' = [hiddenVideo EXCEPT !.seeking = "no"]
    /\ LET waiting == {j \in 1 .. Len(jobs) : jobs[j].pc = "seeking"}
       IN  IF waiting = {}
           THEN UNCHANGED <<processing, processingProgress, jobs>>
           ELSE LET j == CHOOSE k \in waiting : TRUE
                IN  IF webmSupported
                    THEN /\ jobs' = [jobs EXCEPT ![j].pc = "playing",
                                                 ![j].mediaRecorder = "recording"]
                         /\ UNCHANGED <<processing, processingProgress>>
                    ELSE catch(j)
    /\ UNCHANGED <<events, processedVideoUrl, recordedChunks, downloads>>

\* video.play() resolves: playback has begun (it cannot while a seek is
\* pending), by now the position is the start or a frame past it (lead); the
\* two timers are set and processVideo returns
PlayResolved(j, lead) ==
    /\ j <= Len(jobs)
    /\ jobs[j].pc = "playing"
    /\ hiddenVideo.seeking = "no"
    /\ Captured("playresolved")
    /\ hiddenVideo' = [hiddenVideo EXCEPT !.paused = FALSE,
                                          !.currentTime = @ + lead]
    /\ jobs' = [jobs EXCEPT ![j].pc = "returned",
                            ![j].progressInterval = TRUE,
                            ![j].recordingTimeout = TRUE]
    /\ UNCHANGED <<events, processing, processedVideoUrl, processingProgress,
                   recordedChunks, downloads>>

\* video.play() rejects: the inner catch stops the recorder and unmutes, the
\* outer catch follows
PlayRejected(j) ==
    /\ j <= Len(jobs)
    /\ jobs[j].pc = "playing"
    /\ Fault
    /\ Captured("playrejected")
    /\ hiddenVideo' = [hiddenVideo EXCEPT !.muted = FALSE]
    /\ processing' = FALSE
    /\ processingProgress' = Whole(0)
    /\ jobs' = [jobs EXCEPT ![j].pc = "caught", ![j].mediaRecorder = "stopped"]
    /\ UNCHANGED <<processedVideoUrl, recordedChunks, downloads>>

\* the recording length read from the range the App holds now
DurationOfCurrentRange(job) == clipEndTime - clipStartTime

\* videoEndTime - videoStartTime, in ticks
Duration(job) == job.videoEndTime - job.videoStartTime

\* the interval callback of the job is due
IntervalDue(job) ==
    job.progressInterval /\ job.elapsed - job.lastFire >= IntervalTicks

\* the timeout callback of the job is due
TimeoutDue(job) == job.recordingTimeout /\ job.elapsed >= Duration(job)

\* the job still has a timer or a running recorder
Live(job) ==
    job.progressInterval \/ job.recordingTimeout \/ job.mediaRecorder = "recording"

\* the hidden video is playing: its position moves with time
Playing(video) == ~video.paused /\ video.seeking = "no"

\* the ticks until the next timer callback is due, at most an interval
UntilDue ==
    LET waits ==
            {IntervalTicks}
            \cup {jobs[j].lastFire + IntervalTicks - jobs[j].elapsed :
                    j \in {k \in 1 .. Len(jobs) : jobs[k].progressInterval}}
            \cup {Duration(jobs[j]) - jobs[j].elapsed :
                    j \in {k \in 1 .. Len(jobs) : jobs[k].recordingTimeout}}
    IN  CHOOSE w \in waits : \A x \in waits : w <= x

\* Wall-clock time passes, up to the next timer callback.  The hidden video,
\* when playing, advances as far, or stalls (a fault, counted); it stops at
\* the end of the source.
Tick ==
    /\ \E j \in 1 .. Len(jobs) : Live(jobs[j])
    /\ \A j \in 1 .. Len(jobs) :
          /\ ~IntervalDue(jobs[j])
          /\ ~TimeoutDue(jobs[j])
          /\ jobs[j].mediaRecorder # "stopped"
    /\ Captured("tick")
    /\ jobs' = [j \in 1 .. Len(jobs) |->
                  IF jobs[j].progressInterval \/ jobs[j].recordingTimeout
                  THEN [jobs[j] EXCEPT !.elapsed = @ + UntilDue]
                  ELSE jobs[j]]
    /\ \E stalled \in BOOLEAN :
          /\ stalled => Playing(hiddenVideo)
          /\ IF stalled THEN Fault ELSE UNCHANGED events
          /\ hiddenVideo' =
                IF Playing(hiddenVideo) /\ ~stalled
                THEN [hiddenVideo EXCEPT
                        !.currentTime = Min(@ + UntilDue, videoDuration)]
                ELSE hiddenVideo
    /\ UNCHANGED <<processing, processedVideoUrl, processingProgress,
                   recordedChunks, downloads>>

\* the setInterval callback of job j
IntervalFires(j) ==
    /\ j <= Len(jobs)
    /\ IntervalDue(jobs[j])
    /\ Captured("interval")
    /\ processingProgress' = Progress(jobs[j].elapsed, Duration(jobs[j]))
    /\ jobs' = [jobs EXCEPT ![j].lastFire = jobs[j].elapsed]
    /\ UNCHANGED <<events, processing, processedVideoUrl, recordedChunks,
                   hiddenVideo, downloads>>

\* the setTimeout callback of job j
TimeoutFires(j) ==
    /\ j <= Len(jobs)
    /\ TimeoutDue(jobs[j])
    /\ Captured("timeout")
    /\ IF jobs[j].mediaRecorder = "recording"
       THEN /\ jobs' = [jobs EXCEPT ![j].progressInterval = FALSE,
                                    ![j].recordingTimeout = FALSE,
                                    ![j].mediaRecorder = "stopped"]
            /\ hiddenVideo' = ResetVideo(hiddenVideo, jobs[j].videoStartTime)
       ELSE /\ jobs' = [jobs EXCEPT ![j].progressInterval = FALSE,
                                    ![j].recordingTimeout = FALSE]
            /\ UNCHANGED hiddenVideo
    /\ UNCHANGED <<events, processing, processedVideoUrl, processingProgress,
                   recordedChunks, downloads>>

\* mediaRecorder.ondataavailable of a running recorder, event.data.size > 0
\* (the bound leaves room for the last chunk)
DataAvailable(j) ==
    /\ j <= Len(jobs)
    /\ jobs[j].mediaRecorder = "recording"
    /\ Len(recordedChunks) + 1 < MaxChunks
    /\ Captured("data")
    /\ recordedChunks' = Append(recordedChunks, j)
    /\ UNCHANGED <<events, processing, processedVideoUrl, processingProgress,
                   hiddenVideo, jobs, downloads>>

\* mediaRecorder.onstop without `if (recordedChunksRef.current.length === 0)`
onstopNoEmptyCheck(j, chunks, video) ==
    /\ processedVideoUrl' = Blob(chunks, j)
    /\ processing' = FALSE
    /\ processingProgress' = Whole(100)
    /\ hiddenVideo' = ResetVideo(video, jobs[j].videoStartTime)

\* mediaRecorder.onstop of job j, run with these chunks in the ref and the
\* hidden video as the handlers before it in the task left it
onstop(j, chunks, video) ==
    IF chunks = << >>
    THEN /\ processing' = FALSE
         /\ processingProgress' = Whole(0)
         /\ hiddenVideo' = video
         /\ UNCHANGED processedVideoUrl
    ELSE /\ processedVideoUrl' = Blob(chunks, j)
         /\ processing' = FALSE
         /\ processingProgress' = Whole(100)
         /\ hiddenVideo' = ResetVideo(video, jobs[j].videoStartTime)

\* the chunks after the last dataavailable of a recorder
FinalChunks(j, nonEmpty) ==
    IF nonEmpty THEN Append(recordedChunks, j) ELSE recordedChunks

\* the task a stop() queued: the last dataavailable (nonEmpty: of size > 0),
\* then onstop
RecorderStopTask(j, nonEmpty) ==
    /\ j <= Len(jobs)
    /\ jobs[j].mediaRecorder = "stopped"
    /\ nonEmpty => Len(recordedChunks) < MaxChunks
    /\ Captured("stop")
    /\ recordedChunks' = FinalChunks(j, nonEmpty)
    /\ onstop(j, FinalChunks(j, nonEmpty), hiddenVideo)
    /\ jobs' = [jobs EXCEPT ![j].mediaRecorder = "inactive"]
    /\ UNCHANGED <<events, downloads>>

\* the task of a recorder that fails while recording: onerror, the last
\* dataavailable, then onstop
RecorderErrorTask(j, nonEmpty) ==
    /\ j <= Len(jobs)
    /\ jobs[j].mediaRecorder = "recording"
    /\ nonEmpty => Len(recordedChunks) < MaxChunks
    /\ Fault
    /\ Captured("error")
    /\ recordedChunks' = FinalChunks(j, nonEmpty)
    /\ onstop(j, FinalChunks(j, nonEmpty),
              ResetVideo(hiddenVideo, jobs[j].videoStartTime))
    /\ jobs' = [jobs EXCEPT ![j].mediaRecorder = "inactive"]
    /\ UNCHANGED downloads

\* onClick of "Upload a different video": setVideoLoaded(false) unmounts the
\* player and DownloadOptions.  No effect cleanup of DownloadOptions touches
\* a job (the function processVideo returns is dropped by downloadVideo);
\* the browser pauses the hidden video it removes from the document.
SessionReset ==
    /\ mounted
    /\ Fault
    /\ lastOp' = "reset"
    /\ mounted' = FALSE
    /\ hiddenVideo' = [hiddenVideo EXCEPT !.paused = TRUE]
    /\ UNCHANGED <<playerVars, thumbVars, webmSupported, processing,
                   processedVideoUrl, processingProgress, recordedChunks,
                   jobs, downloads, sessionVars>>

\* keys of keydown events while DownloadOptions is shown
CaptureKeys == {"ArrowRight"}

\* window keydown listener of the player: the range is nudged, the App
\* renders DownloadOptions with the new videoStartTime and videoEndTime and
\* runs its regeneration effect.  DownloadOptions has no effect and no
\* handler that depends on the two props.
CaptureKeyDown(key, shiftKey) ==
    /\ mounted
    /\ Fault
    /\ handleKeyDown(key, shiftKey)
    /\ lastOp' = "keydown"
    /\ RegenerateEffect("keydown")
    /\ Len(videos') <= MaxVideos
    /\ UNCHANGED <<isDragging, dragStartX, draggingHandle, anchorStart, before,
                   thumbnails, selectedThumbnail, videoRef, overview,
                   captureVars, sessionVars>>

\* the clip ranges exported: a second inside the source, a second and a
\* frame at its end
CaptureRanges ==
    {<<Sec(10), Sec(11)>>, <<Sec(99) - OneFrame, Sec(100)>>}

\* a loaded 100 s source with a clip range chosen, nothing exported yet
InitCapture ==
    /\ FirstSource
    /\ videoDuration = Sec(100)
    /\ \E range \in CaptureRanges :
          /\ selectionStart = range[1]
          /\ selectionEnd = range[2]
          /\ clipStartTime = range[1]
          /\ clipEndTime = range[2]
          /\ before = [start |-> range[1], end |-> range[2], duration |-> 0]
          /\ thumbnails = DeliveredVideo(range[1], range[2]).newThumbnails
          /\ selectedThumbnail = thumbnails[1]
          /\ videos = <<DeliveredVideo(range[1], range[2])>>
    /\ isDragging = FALSE
    /\ dragStartX = 0
    /\ draggingHandle = "null"
    /\ isPlaying = FALSE
    /\ lastOp = "videoseeked"
    /\ anchorStart = 0
    /\ events = 0
    /\ videoRef = IdleVideo
    /\ overview = NoBatch
    /\ processing = FALSE
    /\ processedVideoUrl = NoUrl
    /\ processingProgress = Whole(0)
    /\ recordedChunks = << >>
    /\ hiddenVideo = ReadyVideo
    /\ jobs = << >>
    /\ webmSupported \in BOOLEAN
    /\ downloads = << >>
    /\ mounted = TRUE

NextCapture ==
    \/ DownloadClick
    \/ CaptureSeeked
    \/ \E j \in 1 .. MaxJobs : \E lead \in {0, OneFrame} : PlayResolved(j, lead)
    \/ \E j \in 1 .. MaxJobs : PlayRejected(j)
    \/ Tick
    \/ \E j \in 1 .. MaxJobs : IntervalFires(j)
    \/ \E j \in 1 .. MaxJobs : TimeoutFires(j)
    \/ \E j \in 1 .. MaxJobs : DataAvailable(j)
    \/ \E j \in 1 .. MaxJobs : \E nonEmpty \in BOOLEAN : RecorderStopTask(j, nonEmpty)
    \/ \E j \in 1 .. MaxJobs : \E nonEmpty \in BOOLEAN : RecorderErrorTask(j, nonEmpty)
    \/ SessionReset
    \/ \E key \in CaptureKeys : \E shiftKey \in BOOLEAN : CaptureKeyDown(key, shiftKey)

SpecCapture == InitCapture /\ [][NextCapture]_vars

\* The pipeline with the browser's scheduling: time passes, a timer callback
\* that is due runs, a queued recorder task runs and play() settles.  A seek
\* is not bound to settle (a stalled source fires no seeked).
SpecCaptureLive ==
    /\ SpecCapture
    /\ WF_vars(Tick)
    /\ \A j \in 1 .. MaxJobs :
          /\ WF_vars(IntervalFires(j))
          /\ WF_vars(TimeoutFires(j))
          /\ WF_vars(\E nonEmpty \in BOOLEAN : RecorderStopTask(j, nonEmpty))
          /\ WF_vars(\E lead \in {0, OneFrame} : PlayResolved(j, lead))

----------------------------------------------------------------------------
(* The session across sources (the App of VideoPlayer.tsx:574-707 with     *)
(* VideoUploader and ThumbnailSelector).  A source is known by its number. *)
(* The player, the selector and DownloadOptions exist while videoLoaded    *)
(* is set and mount with their initial state when a source is chosen; the  *)
(* App, its canvas and the video elements its effect made live on.  No     *)
(* export is requested here.                                               *)

\* the sources the user chooses from
Sources == {1, 2}

\* video.duration of a source (ticks)
SourceDuration(src) == IF src = 1 THEN Sec(100) ELSE Sec(120)

\* thumbnails the user clicks, by index (0 is the first)
SelectorIndexes == {0, 2}

\* App.handleVideoSelected
handleVideoSelected(src) ==
    /\ videoSrc' = src
    /\ mounted' = TRUE
    /\ thumbnails' = << >>
    /\ selectedThumbnail' = NoImage
    /\ clipStartTime' = 0
    /\ clipEndTime' = MaxSpan

\* App.handleThumbnailSelected
handleThumbnailSelected(thumbnail) ==
    selectedThumbnail' = thumbnail

\* ThumbnailSelector.handleThumbnailClick
handleThumbnailClick(index) ==
    /\ selectedIndex' = index
    /\ handleThumbnailSelected(thumbnails[index + 1])

\* VideoUploader calls onVideoSelected: handleVideoSelected, then the render
\* mounts the player and the selector with their initial state and the
\* regeneration effect runs for the new videoSrc and the range (0, 90 s)
VideoSelected(src) ==
    /\ ~mounted
    /\ events < MaxAppEvents
    /\ events' = events + 1
    /\ lastOp' = "videoselected"
    /\ handleVideoSelected(src)
    /\ videoDuration' = 0
    /\ selectionStart' = Mounted.start
    /\ selectionEnd' = Mounted.end
    /\ isDragging' = FALSE
    /\ dragStartX' = 0
    /\ draggingHandle' = "null"
    /\ isPlaying' = FALSE
    /\ anchorStart' = 0
    /\ selectedIndex' = -1
    /\ videos' = Append(videos, [NewVideo(0, MaxSpan) EXCEPT !.src = src])
    /\ Len(videos') <= MaxVideos
    /\ UNCHANGED <<before, videoRef, overview, listeners, processing,
                   processedVideoUrl, processingProgress, recordedChunks,
                   hiddenVideo, jobs, webmSupported, downloads>>

\* the player's <video> fires loadedmetadata for the source of the session
SessionLoadedMetadata ==
    /\ mounted
    /\ videoDuration = 0
    /\ lastOp' = "loadedmetadata"
    /\ handleMetadataLoaded(SourceDuration(videoSrc))
    /\ RegenerateEffect("loadedmetadata")
    /\ Len(videos') <= MaxVideos
    /\ UNCHANGED <<isDragging, dragStartX, draggingHandle, isPlaying,
                   anchorStart, before, events, thumbnails, selectedThumbnail,
                   videoRef, overview, captureVars, sessionVars>>

\* window keydown listener of the player, while the player is shown
SessionKeyDown(key, shiftKey) ==
    /\ mounted
    /\ AppKeyDown(key, shiftKey)

\* onClick of a thumbnail of the selector
ThumbnailClick(index) ==
    /\ mounted
    /\ index < Len(thumbnails)
    /\ events < MaxAppEvents
    /\ events' = events + 1
    /\ lastOp' = "thumbnailclick"
    /\ handleThumbnailClick(index)
    /\ UNCHANGED <<playerVars, thumbnails, videos, videoRef, overview,
                   captureVars, videoSrc, listeners>>

\* source 1 has just been chosen: the player has mounted, the effect has made
\* the video element of its first run
InitSession ==
    /\ FirstSource
    /\ videoDuration = 0
    /\ selectionStart = Mounted.start
    /\ selectionEnd = Mounted.end
    /\ isDragging = FALSE
    /\ dragStartX = 0
    /\ draggingHandle = "null"
    /\ isPlaying = FALSE
    /\ clipStartTime = 0
    /\ clipEndTime = MaxSpan
    /\ lastOp = "videoselected"
    /\ anchorStart = 0
    /\ before = [start |-> 0, end |-> MaxSpan, duration |-> 0]
    /\ events = 0
    /\ thumbnails = << >>
    /\ selectedThumbnail = NoImage
    /\ videos = <<NewVideo(0, MaxSpan)>>
    /\ videoRef = IdleVideo
    /\ overview = NoBatch
    /\ NoCapture

NextSession ==
    \/ SessionLoadedMetadata
    \/ \E key \in CaptureKeys : \E shiftKey \in BOOLEAN : SessionKeyDown(key, shiftKey)
    \/ \E index \in SelectorIndexes : ThumbnailClick(index)
    \/ SessionReset
    \/ \E src \in Sources : VideoSelected(src)
    \/ \E v \in 1 .. MaxVideos : VideoLoadedMetadata(v)
    \/ \E v \in 1 .. MaxVideos : VideoSeeked(v)

SpecSession == InitSession /\ [][NextSession]_vars

----------------------------------------------------------------------------
(* Playback in the player (VideoPlayer.tsx:311-320, 377-433).  The <video> *)
(* of the player is a record: its position, whether a seek is pending,     *)
(* whether it is paused (history: plays = the play() calls so far).  While *)
(* it plays, its position moves on from one timeupdate event to the next;  *)
(* a seek that settles fires timeupdate as well.  When the position        *)
(* reaches the end of the source the element fires timeupdate and then     *)
(* pauses itself.  The currentTime state of the player is display only     *)
(* and left out, and so are the thumbnails.                                *)

\* clicks, presses and keys in one run
MaxPresses == 4

\* video.duration of the source played (ticks)
PlaybackDuration == Sec(6)

\* the playback time between two timeupdate events (ticks)
PlaybackStep == Sec(1)

\* the selection when playback begins
PlaybackRange == <<Sec(1), Sec(3)>>

\* keys of keydown events during playback
PlaybackKeys == {" ", "ArrowLeft", "ArrowRight"}

\* <video ref={videoRef}> of the player, loaded
LoadedVideo == [currentTime |-> 0, seeking |-> "no", paused |-> TRUE, plays |-> 0]

\* video.play(): a video that has ended starts again from 0
Play(video) ==
    [IF video.currentTime >= videoDuration THEN Seek(video, 0) ELSE video
        EXCEPT !.paused = FALSE, !.plays = @ + 1]

\* the checkTime closure of playSelectedClip with the selectionEnd of its
\* render (history: playback = the play() call of its press)
checkTime(end, playback) == [selectionEnd |-> end, playback |-> playback]

\* checkTime finds the position at or past its selectionEnd
Reached(video, listener) == video.currentTime >= listener.selectionEnd

\* togglePlayPause: videoRef.current.pause() or videoRef.current.play()
ToggleVideo(video) ==
    IF isPlaying THEN [video EXCEPT !.paused = TRUE] ELSE Play(video)

\* handleKeyDown: what it does to the video
KeyDownVideo(video, key, shiftKey) ==
    IF videoDuration = 0 THEN video
    ELSE IF key = " " THEN ToggleVideo(video)
    ELSE IF NudgeAmount(key) = 0 THEN video
    ELSE IF shiftKey THEN Seek(video, NudgeEnd(NudgeAmount(key)))
    ELSE Seek(video, NudgeStart(NudgeAmount(key)))

\* playSelectedClip
playSelectedClip ==
    /\ videoRef' = Play(Seek(videoRef, selectionStart))
    /\ isPlaying' = TRUE
    /\ listeners' = Append(listeners, checkTime(selectionEnd, videoRef'.plays))

\* the video fires timeupdate with the position of `video`: every checkTime
\* listener runs, one that has reached its end pauses the video, clears
\* isPlaying and removes itself; then a video at its end pauses itself
TimeUpdateFires(video) ==
    LET fired == \E i \in 1 .. Len(listeners) : Reached(video, listeners[i])
        Stays(listener) == ~Reached(video, listener)
    IN  /\ listeners' = SelectSeq(listeners, Stays)
        /\ isPlaying' = IF fired THEN FALSE ELSE isPlaying
        /\ videoRef' = [video EXCEPT
              !.paused = @ \/ fired \/ video.currentTime >= videoDuration]

\* bookkeeping of a step of playback
Played(op) ==
    /\ lastOp' = op
    /\ UNCHANGED <<isDragging, dragStartX, draggingHandle, anchorStart, before,
                   thumbnails, selectedThumbnail, videos, overview,
                   captureVars, videoSrc, selectedIndex>>

\* a click, press or key: counted
Pressed == events < MaxPresses /\ events' = events + 1

\* onClick of the video and of the play button
PlayerClick ==
    /\ Pressed
    /\ Played("click")
    /\ togglePlayPause
    /\ videoRef' = ToggleVideo(videoRef)
    /\ UNCHANGED <<videoDuration, selectionStart, selectionEnd, clipStartTime,
                   clipEndTime, listeners>>

\* window keydown listener
PlayerKeyDown(key, shiftKey) ==
    /\ Pressed
    /\ Played(IF key = " " THEN "space" ELSE "keydown")
    /\ handleKeyDown(key, shiftKey)
    /\ videoRef' = KeyDownVideo(videoRef, key, shiftKey)
    /\ UNCHANGED listeners

\* onClick of "Play Selected Clip"
PlayClipClick ==
    /\ Pressed
    /\ Played("playclip")
    /\ playSelectedClip
    /\ UNCHANGED <<videoDuration, selectionStart, selectionEnd, clipStartTime,
                   clipEndTime>>

\* the seek of the video settles; timeupdate fires
PlayerSeeked ==
    /\ videoRef.seeking = "pending"
    /\ Played("seeked")
    /\ TimeUpdateFires([videoRef EXCEPT !.seeking = "no"])
    /\ UNCHANGED <<videoDuration, selectionStart, selectionEnd, clipStartTime,
                   clipEndTime, events>>

\* the video plays on to its next timeupdate
TimeUpdate ==
    /\ Playing(videoRef)
    /\ Played("timeupdate")
    /\ TimeUpdateFires([videoRef EXCEPT
          !.currentTime = Min(@ + PlaybackStep, videoDuration)])
    /\ UNCHANGED <<videoDuration, selectionStart, selectionEnd, clipStartTime,
                   clipEndTime, events>>

\* a 6 s source is loaded and the selection 1..3 s has been made
InitPlayback ==
    /\ FirstSource
    /\ videoDuration = PlaybackDuration
    /\ selectionStart = PlaybackRange[1]
    /\ selectionEnd = PlaybackRange[2]
    /\ isDragging = FALSE
    /\ dragStartX = 0
    /\ draggingHandle = "null"
    /\ isPlaying = FALSE
    /\ clipStartTime = PlaybackRange[1]
    /\ clipEndTime = PlaybackRange[2]
    /\ lastOp = "keydown"
    /\ anchorStart = 0
    /\ before = [start |-> 0, end |-> MaxSpan, duration |-> 0]
    /\ events = 0
    /\ thumbnails = << >>
    /\ selectedThumbnail = NoImage
    /\ videos = << >>
    /\ videoRef = [LoadedVideo EXCEPT !.currentTime = PlaybackRange[1]]
    /\ overview = NoBatch
    /\ NoCapture

NextPlayback ==
    \/ PlayerClick
    \/ \E key \in PlaybackKeys : \E shiftKey \in BOOLEAN : PlayerKeyDown(key, shiftKey)
    \/ PlayClipClick
    \/ PlayerSeeked
    \/ TimeUpdate

SpecPlayback == InitPlayback /\ [][NextPlayback]_vars

----------------------------------------------------------------------------
(* Properties of the selection state machine *)

\* C1: once metadata has loaded with duration > 0, the selection satisfies
\* 0 <= selectionStart <= selectionEnd <= videoDuration after any sequence of
\* handle drags, keyboard nudges and duration updates.
SelectionWithinDuration ==
    videoDuration > 0 =>
        /\ 0 <= selectionStart
        /\ selectionStart <= selectionEnd
        /\ selectionEnd <= videoDuration

\* C2: in every reachable state of the player the selection is at most
\* maxSpan (90 s) long.
SpanAtMostMaxSpan ==
    selectionEnd - selectionStart <= MaxSpan

\* C3: once metadata has loaded, the selection is never shorter than the
\* minimum span, a strictly positive floor (one frame interval).
SpanAtLeastMinSpan ==
    videoDuration > 0 => selectionEnd - selectionStart >= OneFrame

\* The case of C4: the selection was start = 10 s, end = 95 s in a 100 s video
\* and the duration has just changed to 50 s.
ReclampCase ==
    /\ lastOp = "loadedmetadata"
    /\ before = [start |-> Sec(10), end |-> Sec(95), duration |-> Sec(100)]
    /\ videoDuration = Sec(50)

FixedOrder(s, e, d) ==
    LET e1 == Min(e, d)
        s1 == Min(s, e1)
        s2 == IF e1 - s1 > MaxSpan THEN e1 - MaxSpan ELSE s1
        e2 == IF e1 - s2 < OneFrame THEN s2 + OneFrame ELSE e1
    IN  <<s2, e2>>

\* C5: for every prior (start, end) and every new duration > 0, the selection
\* after a duration change is the result of the fixed clamp order applied to
\* the prior selection.
DurationChangeFollowsFixedOrder ==
    lastOp = "loadedmetadata" =>
        <<selectionStart, selectionEnd>>
            = FixedOrder(before.start, before.end, videoDuration)

\* C6: while the Start handle is dragged, a pointer position whose time is
\* greater than end - 1 s sets start to exactly end - 1 s; end is left
\* unchanged and start is never placed beyond end - 1 s.
StartDragStopsAtMinSpan ==
    [][\A x \in ClientXs :
        (/\ lastOp' = "mousemove"
         /\ isDragging /\ draggingHandle = "start" /\ MouseMove(x)) =>
            /\ selectionEnd' = selectionEnd
            /\ selectionStart' <= selectionEnd - OneSecond
            /\ (PointerTime(x, videoDuration) > selectionEnd - OneSecond
                    => selectionStart' = selectionEnd - OneSecond)]_vars

\* C6 witness: a Start drag has just stopped the handle one second before
\* end, at a time no pointer position maps to.
StartDragClamped ==
    /\ lastOp = "mousemove"
    /\ isDragging
    /\ draggingHandle = "start"
    /\ videoDuration > 0
    /\ selectionStart = selectionEnd - OneSecond
    /\ \A x \in ClientXs : PointerTime(x, videoDuration) # selectionStart

\* C7: a Frame drag update never changes the span, and the new window
\* satisfies 0 <= start and end <= duration (stated for a loaded video).
FrameDragKeepsSpan ==
    [][\A x \in ClientXs :
        (/\ lastOp' = "mousemove"
         /\ videoDuration > 0
         /\ isDragging /\ draggingHandle = "frame" /\ MouseMove(x)) =>
            /\ selectionEnd' - selectionStart' = selectionEnd - selectionStart
            /\ 0 <= selectionStart'
            /\ selectionEnd' <= videoDuration]_vars

\* C8: each Frame drag update puts start at the selection start recorded at
\* drag begin plus the time equivalent of (pointer x - pointer x at drag
\* begin), clamped to [0, duration - span] (stated for a loaded video).
FrameDragFollowsPointer ==
    [][\A x \in ClientXs :
        (/\ lastOp' = "mousemove"
         /\ videoDuration > 0
         /\ isDragging /\ draggingHandle = "frame" /\ MouseMove(x)) =>
            selectionStart' =
                Max(0, Min(videoDuration - (selectionEnd - selectionStart),
                           anchorStart
                             + PixelsToTime(x - dragStartX, videoDuration)))]_vars

\* C9: a mouse-up on the timeline or the pointer leaving it returns the drag
\* handle to None and isDragging to false, and while no drag is active no
\* pointer move changes the selection.
DragNeverStuck ==
    [][/\ (MouseUp \/ MouseLeave) =>
              (draggingHandle' = "null" /\ isDragging' = FALSE)
       /\ \A x \in ClientXs :
              (/\ lastOp' = "mousemove"
               /\ draggingHandle = "null" /\ ~isDragging /\ MouseMove(x)) =>
                  UNCHANGED <<selectionStart, selectionEnd,
                              clipStartTime, clipEndTime>>]_vars

\* C9 witness: a drag was begun and ended, the selection is not the one
\* metadata load set, and the pointer has moved over the timeline since.
MoveAfterDragEnded ==
    /\ lastOp = "mousemove"
    /\ draggingHandle = "null"
    /\ ~isDragging
    /\ dragStartX \in ClientXs
    /\ videoDuration > 0
    /\ selectionStart > 0

\* the step C10 gives each nudge key
ClaimedStep(key) ==
    CASE key = "ArrowLeft"  -> 0 - FPS
      [] key = "ArrowRight" -> FPS
      [] key = ","          -> 0 - 1
      [] key = "."          -> 1

\* C10: once a source is loaded, a nudge without Shift changes only start and
\* a nudge with Shift changes only end; the bound moves by 1 s for the arrow
\* keys and by 1/30 s for ',' and '.' (unless that would leave the allowed
\* range, where it stops at the limit), whether or not a drag is active, and
\* the drag state is left unchanged.
NudgeMovesOneBound ==
    [][(lastOp' = "keydown" /\ videoDuration # 0) =>
        \A k \in {"ArrowLeft", "ArrowRight", ",", "."}, sh \in BOOLEAN :
          KeyDown(k, sh) =>
            /\ <<isDragging, draggingHandle, dragStartX>>'
                 = <<isDragging, draggingHandle, dragStartX>>
            /\ ~sh =>
                 /\ selectionEnd' = selectionEnd
                 /\ selectionStart' \in
                        {selectionStart + ClaimedStep(k), 0,
                         selectionEnd - 1, selectionEnd - MaxSpan}
                 /\ (/\ 0 <= selectionStart + ClaimedStep(k)
                     /\ selectionStart + ClaimedStep(k) <= selectionEnd - 1
                     /\ selectionEnd - (selectionStart + ClaimedStep(k))
                            <= MaxSpan)
                        => selectionStart' = selectionStart + ClaimedStep(k)
            /\ sh =>
                 /\ selectionStart' = selectionStart
                 /\ selectionEnd' \in
                        {selectionEnd + ClaimedStep(k), videoDuration,
                         selectionStart + 1, selectionStart + MaxSpan}
                 /\ (/\ selectionStart + 1 <= selectionEnd + ClaimedStep(k)
                     /\ selectionEnd + ClaimedStep(k) <= videoDuration
                     /\ (selectionEnd + ClaimedStep(k)) - selectionStart
                            <= MaxSpan)
                        => selectionEnd' = selectionEnd + ClaimedStep(k)]_vars

\* C10 witness: with a drag active, a frame nudge has moved start by one
\* frame (metadata load, mouse-down, '.').
NudgedWhileDragging ==
    /\ lastOp = "keydown"
    /\ events = 3
    /\ isDragging
    /\ draggingHandle \in Handles
    /\ videoDuration > 0
    /\ selectionStart = 1
    /\ selectionEnd = Min(MaxSpan, videoDuration)

----------------------------------------------------------------------------
(* Properties of thumbnail sampling *)

\* C11: overview sampling visits exactly the N = 5 offsets
\* offset_i = i * duration / (N + 1) for i = 1 .. 5, all strictly inside
\* (0, duration) (for a 100 s source 0 is not sampled and 500/6 s is): the
\* seeks a batch has issued are the first of these offsets, in order.
OverviewVisitsInnerOffsets ==
    /\ Len(overview.visited) <= numThumbnails
    /\ \A k \in 1 .. Len(overview.visited) :
          /\ TimeEq(overview.visited[k],
                    Time(k * videoDuration, numThumbnails + 1))
          /\ TimeLt(Whole(0), overview.visited[k])
          /\ TimeLt(overview.visited[k], Whole(videoDuration))

\* C12: range-preview sampling of (start, end) with span = end - start uses
\* count = max(1, floor(span / 10 s)) offsets,
\* offset_i = start + (i + 0.5) * span / count for i = 0 .. count - 1; for
\* start = 10 s, end = 40 s these are exactly 15, 25, 35 s; for span > 0 the
\* offsets are strictly increasing and strictly between start and end.
PreviewOffsetsCentred ==
    \A v \in 1 .. Len(videos) :
        videos[v].loaded =>
            LET start == videos[v].start
                end   == videos[v].end
                span  == end - start
                count == IF span \div TenSeconds > 1 THEN span \div TenSeconds
                                                     ELSE 1
                pos   == videos[v].thumbnailPositions
            IN  /\ Len(pos) = count
                /\ \A i \in 0 .. count - 1 :
                      2 * count * (pos[i + 1].num - start * pos[i + 1].den)
                          = (2 * i + 1) * span * pos[i + 1].den
                /\ (start = Sec(10) /\ end = Sec(40)) =>
                      \A k \in 1 .. 3 :
                          TimeEq(pos[k], Whole(Sec(<<15, 25, 35>>[k])))
                /\ span > 0 =>
                      /\ \A k \in 1 .. count - 1 : TimeLt(pos[k], pos[k + 1])
                      /\ \A k \in 1 .. count :
                            /\ TimeLt(Whole(start), pos[k])
                            /\ TimeLt(pos[k], Whole(end))

\* the batch of the range (10 s, 40 s) has delivered its three images
TenToFortyDelivered ==
    \E v \in 1 .. Len(videos) :
        /\ videos[v].start = Sec(10)
        /\ videos[v].end = Sec(40)
        /\ videos[v].delivered
        /\ Len(thumbnails) = 3

\* C13: thumbnail sampling is started once per stable range: no sampling is
\* started for an intermediate (start, end) value that a drag produced and
\* then replaced; a sampling starts only after the input has settled.
NoSamplingOfIntermediateRanges ==
    \A v \in 1 .. Len(videos) :
        videos[v].intermediate => ~videos[v].loaded

\* C14: if the range changes while a sampling for an earlier range is in
\* flight, the earlier result is not installed: once every sampling has
\* completed, the thumbnails are those sampled for the latest range.
LatestRangeWins ==
    (\A v \in 1 .. Len(videos) : videos[v].delivered) =>
        LET latest == PreviewPositions(clipStartTime, clipEndTime)
        IN  /\ Len(thumbnails) = Len(latest)
            /\ \A k \in 1 .. Len(latest) :
                  TimeEq(thumbnails[k], Frame(latest[k]))

\* the seeks and images of one batch follow its offsets one at a time
InOrder(positions, visited, images, seeking) ==
    /\ Len(visited) <= Len(positions)
    /\ \A k \in 1 .. Len(visited) : visited[k] = positions[k]
    /\ Len(images) <= Len(visited)
    /\ Len(visited) <= Len(images) + 1
    /\ (seeking = "no") = (Len(visited) = Len(images))
    /\ \A k \in 1 .. Len(images) : TimeEq(images[k], Frame(positions[k]))

\* C15: within one sampling batch the offsets are visited strictly in the
\* given order with at most one seek in flight: the seek to offset i + 1 is
\* issued only after the seek to offset i has settled and its frame was
\* captured, and the images are in offset order.
BatchSeeksInOrder ==
    /\ \A v \in 1 .. Len(videos) :
          videos[v].loaded =>
              InOrder(videos[v].thumbnailPositions, videos[v].visited,
                      videos[v].newThumbnails, videos[v].seeking)
    /\ Len(overview.thumbnailPositions) > 0 =>
          InOrder(overview.thumbnailPositions, overview.visited,
                  overview.thumbnails, videoRef.seeking)

\* C16: a sampling batch always completes: a seek that never settles yields
\* an error element and sampling goes on, so every started batch eventually
\* delivers its thumbnails.
BatchAlwaysCompletes ==
    \A v \in 1 .. MaxVideos :
        [](  (v <= Len(videos) /\ videos[v].loaded)
          => <>(v <= Len(videos) /\ videos[v].delivered))

----------------------------------------------------------------------------
(* Properties of the capture pipeline *)

\* the interval callback of job j runs in this step
IntervalRan(j) == lastOp' = "interval" /\ jobs'[j].lastFire # jobs[j].lastFire

\* onstop of job j runs in this step
StopRan(j) ==
    jobs[j].mediaRecorder # "inactive" /\ jobs'[j].mediaRecorder = "inactive"

\* C17: the progress value is 100 only when an output artifact exists, a job
\* that writes 100 has just produced that artifact, and every value a job
\* writes while its recorder is recording is at most 99.
ProgressHundredOnlyWhenDone ==
    [][/\ TimeEq(processingProgress', Whole(100)) => processedVideoUrl' # NoUrl
       /\ \A j \in 1 .. Len(jobs) :
             /\ IntervalRan(j) /\ jobs[j].mediaRecorder = "recording"
                   => ~TimeLt(Whole(99), processingProgress')
             /\ StopRan(j) /\ TimeEq(processingProgress', Whole(100))
                   => /\ processedVideoUrl'.job = j
                      /\ processedVideoUrl'.chunks # << >>]_vars

\* C17 (witness): a recording that ran to its timeout has ended with an
\* artifact and the progress at 100
HundredAtDone ==
    /\ lastOp = "stop"
    /\ TimeEq(processingProgress, Whole(100))
    /\ processedVideoUrl = Blob(recordedChunks, 1)
    /\ jobs[1].elapsed = Duration(jobs[1])

\* C18: while a capture job is under way, from the export request to the
\* step that ends it, no step lowers the progress value.
ProgressMonotonic ==
    [][processing => ~TimeLt(processingProgress', processingProgress)]_vars

\* job j is recording: its recorder runs and playback has begun
Recording(j) ==
    jobs[j].mediaRecorder = "recording" /\ jobs[j].pc = "returned"

\* C19: a recording job whose elapsed time has reached end - start, or whose
\* source has reached the end of the range, is stopped before time passes
\* again: its stop is due.
StopsAtEitherBound ==
    \A j \in 1 .. Len(jobs) :
        (/\ Recording(j)
         /\ \/ jobs[j].elapsed >= Duration(jobs[j])
            \/ hiddenVideo.currentTime >= jobs[j].videoEndTime)
        => TimeoutDue(jobs[j])

\* C20: when onstop of a job runs with no chunk accumulated, the step makes
\* no artifact, clears the processing flag and leaves a progress other than
\* 100.
EmptyCaptureFails ==
    [][\A j \in 1 .. Len(jobs) :
          StopRan(j) /\ recordedChunks' = << >>
          => /\ processedVideoUrl' = processedVideoUrl
             /\ ~processing'
             /\ ~TimeEq(processingProgress', Whole(100))]_vars

\* C20 (witness): a recording that ran to its timeout without a chunk has
\* ended without artifact
EmptyCaptureEnded ==
    /\ lastOp = "stop"
    /\ recordedChunks = << >>
    /\ jobs[1].mediaRecorder = "inactive"
    /\ jobs[1].elapsed = Duration(jobs[1])
    /\ processedVideoUrl = NoUrl
    /\ ~processing

\* job j ends Failed in this step: the catch block runs (unsupported codec,
\* rejected play()), or its recorder reports an error, or its onstop finds
\* no chunk
FailsNow(j) ==
    \/ jobs[j].pc # "caught" /\ jobs'[j].pc = "caught"
    \/ /\ jobs[j].pc # "caught"
       /\ StopRan(j)
       /\ lastOp' = "error" \/ recordedChunks' = << >>

\* the hidden video is paused, at the start of the range of job j and unmuted
Restored(video, j) ==
    /\ video.paused
    /\ video.currentTime = jobs[j].videoStartTime
    /\ ~video.muted

\* C21: the step in which a job ends Failed, whatever the failure, leaves
\* the source paused, at range.start and unmuted.
FailureRestoresSource ==
    [][\A j \in 1 .. Len(jobs) : FailsNow(j) => Restored(hiddenVideo', j)]_vars

\* C22: the step in which the recorder of a job reports an error leaves the
\* processing flag false, the progress 0 and the source paused, at
\* range.start and unmuted.
EncoderErrorFailsDirectly ==
    [][\A j \in 1 .. Len(jobs) :
          StopRan(j) /\ lastOp' = "error"
          => /\ ~processing'
             /\ TimeEq(processingProgress', Whole(0))
             /\ Restored(hiddenVideo', j)]_vars

\* job j is under way: awaiting its seek, recording, or stopped with its
\* onstop still to run
UnderWay(j) ==
    \/ jobs[j].pc = "seeking"
    \/ jobs[j].mediaRecorder \in {"recording", "stopped"}

\* C23: a session reset that finds a job under way stops its recorder,
\* cancels its two timers and leaves the source paused, at range.start and
\* unmuted.
ResetCleansUp ==
    [][lastOp' = "reset"
       => \A j \in 1 .. Len(jobs) :
             UnderWay(j)
             => /\ jobs'[j].mediaRecorder # "recording"
                /\ ~jobs'[j].progressInterval
                /\ ~jobs'[j].recordingTimeout
                /\ Restored(hiddenVideo', j)]_vars

\* C24: a click on the download button while a job is recording stops that
\* job's recorder, cancels its timers and starts one new job on the range
\* of the job it cancels.
NewExportCancelsRecording ==
    [][lastOp' = "click"
       => \A j \in 1 .. Len(jobs) :
             Recording(j)
             => /\ jobs'[j].mediaRecorder # "recording"
                /\ ~jobs'[j].progressInterval
                /\ ~jobs'[j].recordingTimeout
                /\ Len(jobs') = Len(jobs) + 1
                /\ jobs'[Len(jobs')].videoStartTime = jobs[j].videoStartTime
                /\ jobs'[Len(jobs')].videoEndTime = jobs[j].videoEndTime]_vars

\* C25: the interval callback of a job runs only while the job is
\* recording; once the job has left Recording it writes no progress.
NoProgressAfterRecording ==
    [][\A j \in 1 .. Len(jobs) : IntervalRan(j) => Recording(j)]_vars

\* C26: every export under way eventually ends, with the processing flag
\* cleared, whether or not the seek to range.start settles.
ExportAlwaysEnds == [](processing => <>(~processing))

\* C27: at most one job has a recorder recording, and at most one job has
\* a timer (progress interval or stop timeout) armed.
AtMostOneLiveJob ==
    /\ Cardinality({j \in 1 .. Len(jobs) :
                      jobs[j].mediaRecorder = "recording"}) <= 1
    /\ Cardinality({j \in 1 .. Len(jobs) :
                      jobs[j].progressInterval \/ jobs[j].recordingTimeout}) <= 1

\* C28: a download delivers only a clip captured for the range selected at
\* the time of the request.
DownloadMatchesRange ==
    [][downloads' # downloads
       => LET url == downloads'[Len(downloads')]
          IN  /\ jobs[url.job].videoStartTime = clipStartTime
              /\ jobs[url.job].videoEndTime = clipEndTime]_vars

\* C29: the step in which a job ends Failed, whatever the failure, leaves
\* the processing flag false.
FailureClearsProcessing ==
    [][\A j \in 1 .. Len(jobs) : FailsNow(j) => ~processing']_vars

\* C29 (witness): after the first job failed in the catch block, export has
\* been requested again and a second job has begun
RetriedAfterFailure ==
    /\ Len(jobs) = 2
    /\ jobs[1].pc = "caught"
    /\ jobs[2].pc = "seeking"
    /\ lastOp = "click"

\* onstop of job j makes an artifact in this step
DoneNow(j) ==
    /\ StopRan(j)
    /\ recordedChunks' # << >>
    /\ processedVideoUrl' = Blob(recordedChunks', j)

\* the recorder of job j is started in this step
RecorderStarts(j) ==
    jobs[j].mediaRecorder = "none" /\ jobs'[j].mediaRecorder = "recording"

\* C30: the step in which a job reaches Done leaves its recorder stopped,
\* the artifact made of every accumulated chunk in arrival order, and the
\* source paused, at range.start and unmuted; a recorder is started only by
\* a job that muted the source and sought range.start, in the step in which
\* the seek settles, with the source muted and at range.start.
DoneOrdering ==
    [][\A j \in 1 .. Len(jobs) :
          /\ DoneNow(j)
             => /\ jobs'[j].mediaRecorder = "inactive"
                /\ processedVideoUrl'.chunks = recordedChunks'
                /\ \A i \in 1 .. Len(recordedChunks) :
                      recordedChunks'[i] = recordedChunks[i]
                /\ Restored(hiddenVideo', j)
          /\ RecorderStarts(j)
             => /\ jobs[j].pc = "seeking"
                /\ hiddenVideo.seeking = "pending"
                /\ hiddenVideo'.seeking = "no"
                /\ hiddenVideo'.muted
                /\ hiddenVideo'.currentTime = jobs[j].videoStartTime]_vars

----------------------------------------------------------------------------
(* Properties of the session: range, source, playback and selector *)

\* C31: when metadata loads in a player that has not seen a duration yet
\* (a freshly mounted player, which is what every new source gets), the
\* selection becomes start = 0, end = min(90 s, d), and the session's range
\* is this same range.
FreshLoadSelectsFirstSpan ==
    [][(lastOp' = "loadedmetadata" /\ videoDuration = 0)
        => /\ selectionStart' = 0
           /\ selectionEnd' = Min(MaxSpan, videoDuration')
           /\ clipStartTime' = selectionStart'
           /\ clipEndTime' = selectionEnd']_vars

\* C31 (witness): the Start handle was dragged before any metadata (start
\* is -1 s then), and the 100 s source has just loaded with 0..90 s selected.
FreshLoadAfterEarlyDrag ==
    /\ lastOp = "loadedmetadata"
    /\ events = 3
    /\ draggingHandle = "start"
    /\ isDragging
    /\ videoDuration = Sec(100)
    /\ selectionStart = 0
    /\ selectionEnd = MaxSpan
    /\ clipEndTime = MaxSpan

\* C33: once a source is loaded, the range the session holds
\* (clipStartTime, clipEndTime) equals the player's selection
\* (selectionStart, selectionEnd) after every handled event.
SessionRangeIsSelection ==
    videoDuration > 0 =>
        /\ clipStartTime = selectionStart
        /\ clipEndTime = selectionEnd

\* job j has failed before its onstop runs: through a rejected play() in
\* an earlier step, or through the recorder error this step reports
FailedBefore(j) ==
    jobs[j].pc = "caught" \/ lastOp' = "error"

\* C34: Failed is terminal: the onstop callback of a job that has failed
\* through an encoder error or a rejected play() makes no output artifact
\* and does not set the progress to 100.
FailedIsTerminal ==
    [][\A j \in 1 .. Len(jobs) :
          StopRan(j) /\ FailedBefore(j)
          => /\ processedVideoUrl' = processedVideoUrl
             /\ TimeEq(processingProgress', Whole(100))
                   => TimeEq(processingProgress, Whole(100))]_vars

\* the timeout callback of job j runs in this step
TimeoutRan(j) == jobs[j].recordingTimeout /\ ~jobs'[j].recordingTimeout

\* C35: a job keeps the range of the export request: the job a click starts
\* holds the range selected then, no step changes the range a job holds
\* (a selection change least of all), the stop timeout of a job runs when
\* end - start of that range has elapsed, and a job that stops its recorder
\* or ends with an artifact resets the source to the start of that range.
JobKeepsRangeSnapshot ==
    [][/\ Len(jobs') > Len(jobs)
          => /\ jobs'[Len(jobs')].videoStartTime = clipStartTime
             /\ jobs'[Len(jobs')].videoEndTime = clipEndTime
       /\ \A j \in 1 .. Len(jobs) :
             /\ jobs'[j].videoStartTime = jobs[j].videoStartTime
             /\ jobs'[j].videoEndTime = jobs[j].videoEndTime
             /\ TimeoutRan(j)
                => /\ jobs[j].elapsed
                         = jobs[j].videoEndTime - jobs[j].videoStartTime
                   /\ jobs[j].mediaRecorder = "recording"
                         => hiddenVideo'.currentTime = jobs[j].videoStartTime
             /\ DoneNow(j)
                => hiddenVideo'.currentTime = jobs[j].videoStartTime]_vars

\* C35 (witness): the range was nudged while the first job was under way
\* (the App holds another range than the job), the job has run for its own
\* end - start and has just ended with an artifact and the source at the
\* job's start.
SnapshotOutlivesNudge ==
    /\ lastOp = "stop"
    /\ jobs[1].mediaRecorder = "inactive"
    /\ <<clipStartTime, clipEndTime>>
          # <<jobs[1].videoStartTime, jobs[1].videoEndTime>>
    /\ jobs[1].elapsed = jobs[1].videoEndTime - jobs[1].videoStartTime
    /\ processedVideoUrl.job = 1
    /\ hiddenVideo.currentTime = jobs[1].videoStartTime

\* C36: a click on the download button with no artifact starts exactly one
\* job and downloads nothing yet; the step in which that job reaches Done
\* triggers the download of its artifact, no further click needed; a click
\* with an artifact downloads it and starts no job.
DownloadFollowsCapture ==
    [][/\ lastOp' = "click" /\ processedVideoUrl = NoUrl
          => /\ Len(jobs') = Len(jobs) + 1
             /\ downloads' = downloads
       /\ lastOp' = "click" /\ processedVideoUrl # NoUrl
          => /\ jobs' = jobs
             /\ downloads' = Append(downloads, processedVideoUrl)
       /\ \A j \in 1 .. Len(jobs) :
             DoneNow(j) /\ ~FailedBefore(j)
             => downloads' = Append(downloads, processedVideoUrl')]_vars

\* the batch of videos[v] delivers in this step
Delivers(v) == ~videos[v].delivered /\ videos'[v].delivered

\* C32: choosing a new source sets, in that one step, the thumbnails to
\* empty, the selected thumbnail to none and the clip range to (0, 90 s);
\* and a batch that delivers thumbnails was sampled from the source the
\* session holds, never from an earlier one.
SourceChangeReleasesThumbnails ==
    [][/\ lastOp' = "videoselected"
          => /\ thumbnails' = << >>
             /\ selectedThumbnail' = NoImage
             /\ clipStartTime' = 0
             /\ clipEndTime' = MaxSpan
       /\ \A v \in 1 .. Len(videos) :
             Delivers(v) => videos[v].src = videoSrc]_vars

\* the thumbnail highlighted in the selector, if any, is the session's
SelectorShowsSelected ==
    selectedIndex # -1
    => /\ selectedIndex < Len(thumbnails)
       /\ thumbnails[selectedIndex + 1] = selectedThumbnail

\* C39: while the selector is shown, its selectedIndex is -1 or the index of
\* the session's selectedThumbnail in the current thumbnails, and the
\* session's selectedThumbnail is empty or one of the current thumbnails.
SelectorFollowsSession ==
    mounted
    => /\ SelectorShowsSelected
       /\ \/ selectedThumbnail = NoImage
          \/ \E k \in 1 .. Len(thumbnails) : thumbnails[k] = selectedThumbnail

\* the playback under way was started by a press of "Play Selected Clip"
ClipPlayback ==
    \E i \in 1 .. Len(listeners) : listeners[i].playback = videoRef.plays

\* C37: a stop watcher pauses only the playback its own press started, at
\* the current selection end: when a timeupdate finds a playing clip
\* playback at or past the current selection end, the video is paused and
\* no watcher is left; and a watcher that pauses a playing video belongs to
\* the playback under way and holds the current selection end.
StopWatcherStopsOwnClip ==
    [][lastOp' \in {"timeupdate", "seeked"} /\ ~videoRef.paused
       => /\ ClipPlayback /\ videoRef'.currentTime >= selectionEnd
             => videoRef'.paused /\ listeners' = << >>
          /\ \A i \in 1 .. Len(listeners) :
                Reached(videoRef', listeners[i])
                => /\ listeners[i].playback = videoRef.plays
                   /\ listeners[i].selectionEnd = selectionEnd]_vars

\* C38: after every step that leaves the selection as playback found it,
\* isPlaying tells whether the video is playing (not paused), and a toggle
\* (a click or Space) flips isPlaying and leaves the selection and the drag
\* state as they were.
IsPlayingTellsPlayback ==
    [][/\ <<selectionStart', selectionEnd'>> = PlaybackRange
          => isPlaying' = ~videoRef'.paused
       /\ lastOp' \in {"click", "space"}
          => /\ isPlaying' = ~isPlaying
             /\ UNCHANGED <<selectionStart, selectionEnd, isDragging,
                            draggingHandle, dragStartX>>]_vars

====
